---- MODULE Spec2Model ----
(***************************************************************************)
(* MANDALA-MINER: the SM-2 scheduler (utils/srsAlgorithm), the review-deck  *)
(* upsert (saveToSRS.saveItem), the offline pending-review queue and the   *)
(* local cache (OfflineCache) and the review session screen                *)
(* (SRSReviewScreen).                                                      *)
(*                                                                         *)
(* Numbers.  Ease factors are JavaScript numbers; the model keeps them in   *)
(* thousandths (2.5 is 2500), so that a prior ease factor can carry a third *)
(* decimal and toFixed(2) has something to round.  The two places where a   *)
(* double differs observably from the exact decimal value are choices of    *)
(* the representation: the side a halfway value is rounded to (tieUp) and   *)
(* whether a product that is exactly an integer comes out just above it     *)
(* (prodUp), as in 5 * 1.4000000000000001.  Timestamps are epoch            *)
(* milliseconds kept as a pair [d, ms] meaning d * oneDayInMs + ms.         *)
(***************************************************************************)
EXTENDS Integers, Sequences, FiniteSets, TLC

VARIABLES
    now,          \* Date.now(): the clock, [d, ms]
    previous,     \* the item's scheduling state: [interval, easeFactor]
    srsInput,     \* the SRSInput of the latest calculateSRS call
    srsOutput,    \* the SRSOutput of the latest calculateSRS call
    srsError,     \* TRUE iff the latest calculateSRS call threw
    deck,         \* table user_review_deck, in creation order
    lastCall,     \* the latest saveItem call of a client that keeps the
                  \* result (useSRS().save): its args and what it returned
    prevCall,     \* the call of that kind before the latest one
    pendingSync,  \* AsyncStorage value under STORAGE_KEYS.PENDING_SYNC
    queueCalls,   \* the queuePendingReview calls: position and local `pending`
    nextUUID,     \* the next crypto.randomUUID()
    persisted,    \* ids of the actions that a storage write has persisted
    returned,     \* ids of the actions whose queuePendingReview call returned
    reachable,    \* TRUE iff the remote store can be reached
    flush,        \* the sync run: position, the list it read, how many it sent
    applied,      \* ids of the actions the store has confirmed, in order
    sentences,    \* useQuery(api.fetchSentences.get): loaded flag and list
    viewState,    \* 'dashboard' | 'session' | 'summary'
    sessionQueue, \* the ReviewItems of the session
    currentIndex, \* index (from 0) of the card shown
    isFlipped,    \* TRUE iff the answer side is shown
    sessionResults, \* correct, incorrect, xpGained
    grading,      \* the handleGrade calls that await saveToSRS
    audio,        \* isPlaying and audioLoading
    cache,        \* AsyncStorage values under SENTENCES and REVIEW_DECK
    lastCache,    \* the latest save or load call of the cache, as completed
    gemini,       \* the analyzeSentence call: position, attempt, model calls
    srsLog        \* a calculateSRS call kept for comparison, the time of
                  \* the latest call and the number of calls

srsVars == <<previous, srsInput, srsOutput, srsError>>

storeVars == <<deck, lastCall, prevCall>>

queueVars ==
    <<pendingSync, queueCalls, nextUUID, persisted, returned, reachable,
      flush, applied>>

sessionVars ==
    <<sentences, viewState, sessionQueue, currentIndex, isFlipped,
      sessionResults, grading, audio>>

cacheVars == <<cache, lastCache>>

geminiVars == <<gemini>>

logVars == <<srsLog>>

vars ==
    <<now, srsVars, storeVars, queueVars, sessionVars, cacheVars, geminiVars,
      logVars>>

----------------------------------------------------------------------------
(* Bounds of the model *)

MaxEaseSteps == 26          \* prior ease factors 1.000 + 0.081 k, k in 0..26
MaxPrevInterval == 13       \* prior intervals -1..13 and 15 k, k in 0..13
MaxChainInterval == 80      \* an item is reviewed again up to this interval
MaxChainEase == 3200        \* ... and up to this ease factor (thousandths)

EaseStride == 81
IntervalStride == 15

MaxClock == 1               \* the clock ticks up to this many milliseconds
MaxDeck == 2                \* records in user_review_deck
MaxCallers == 2             \* queuePendingReview calls that may overlap
MaxActions == 2             \* review actions that are ever queued
MaxFlushes == 2             \* runs of the sync
MaxSentences == 3           \* sentences the query returns
MaxGrading == 2             \* handleGrade calls awaiting the store at once
MaxCacheLen == 2            \* length of the lists that are cached
MaxAnalysed == 2            \* sentences given to analyzeSentence
MaxApiErrors == 2           \* distinct errors of the model API
MaxReviews == 3             \* calculateSRS calls of a logged run

----------------------------------------------------------------------------
(* Time *)

oneDayInMs == 24 * 60 * 60 * 1000

Timestamp(d, ms) == [d |-> d, ms |-> ms]

\* Date.now() + (n * oneDayInMs)
AddDays(t, n) == [d |-> t.d + n, ms |-> t.ms]

\* time passes
Tick ==
    /\ now.ms < MaxClock
    /\ now' = Timestamp(now.d, now.ms + 1)

----------------------------------------------------------------------------
(* Scheduler: utils/srsAlgorithm *)

MIN_EASE_FACTOR == 1300
DEFAULT_EASE_FACTOR == 2500

\* Math.ceil(a / b) for b > 0
Ceil(a, b) == -((-a) \div b)

\* parseFloat(x.toFixed(2)) of x thousandths: the nearest hundredth.  A value
\* halfway between two hundredths has no exact double; which neighbour the
\* double's expansion is nearer to is the representation's choice (tieUp).
toFixed2(x, tieUp) ==
    LET r == x % 10
    IN  IF r < 5 THEN x - r
        ELSE IF r > 5 THEN x - r + 10
        ELSE IF tieUp THEN x + 5 ELSE x - 5

\* 0.1 - (5 - grade) * (0.08 + (5 - grade) * 0.02), in thousandths
EaseDelta(grade) == 100 - (5 - grade) * (80 + (5 - grade) * 20)

\* the ease-factor update without the floor of 1.3
newEaseFactor_noFloor(input) ==
    input.previousEaseFactor + EaseDelta(input.grade)

\* newEaseFactor after the floor, before it is rounded for the result
newEaseFactor(input) ==
    LET ef == input.previousEaseFactor + EaseDelta(input.grade)
    IN  IF ef < MIN_EASE_FACTOR THEN MIN_EASE_FACTOR ELSE ef

\* the product rounded down instead of up
CeilProduct_floors(iv, ef, prodUp) == (iv * ef) \div 1000

\* Math.ceil(previousInterval * newEaseFactor) on doubles: the exact ceiling,
\* except that an exactly integral product may come out just above the
\* integer (prodUp) and is then rounded up to the next one.
CeilProduct(iv, ef, prodUp) ==
    IF (iv * ef) % 1000 = 0 /\ prodUp
    THEN (iv * ef) \div 1000 + 1
    ELSE Ceil(iv * ef, 1000)

\* a failed review that keeps the interval of an already reviewed item
newInterval_failKeeps(input, prodUp) ==
    IF input.grade < 3
    THEN (IF input.previousInterval = 0 THEN 1 ELSE input.previousInterval)
    ELSE IF input.previousInterval = 0 THEN 1
    ELSE IF input.previousInterval = 1 THEN 6
    ELSE CeilProduct(input.previousInterval, newEaseFactor(input), prodUp)

\* a failed review that resets the interval to 0
newInterval_failToZero(input, prodUp) ==
    IF input.grade < 3 THEN 0
    ELSE IF input.previousInterval = 0 THEN 1
    ELSE IF input.previousInterval = 1 THEN 6
    ELSE CeilProduct(input.previousInterval, newEaseFactor(input), prodUp)

newInterval(input, prodUp) ==
    IF input.grade < 3 THEN 1
    ELSE IF input.previousInterval = 0 THEN 1
    ELSE IF input.previousInterval = 1 THEN 6
    ELSE CeilProduct(input.previousInterval, newEaseFactor(input), prodUp)

\* the mastery test applied to the previous interval instead of the new one
newStatus_onPrevious(input, interval) ==
    IF input.grade < 3 THEN "learning"
    ELSE IF input.previousInterval > 180 THEN "mastered"
    ELSE "review"

newStatus(input, interval) ==
    IF input.grade < 3 THEN "learning"
    ELSE IF interval > 180 THEN "mastered"
    ELSE "review"

\* a scheduler whose interval takes in the milliseconds of the clock
calculateSRS_clockInInterval(input, t, fp) ==
    LET interval == newInterval(input, fp.prodUp) + t.ms
    IN  [interval   |-> interval,
         nextReview |-> AddDays(t, interval),
         easeFactor |-> toFixed2(newEaseFactor(input), fp.tieUp),
         status     |-> newStatus(input, interval)]

\* fp = [tieUp, prodUp]: the two choices of the floating-point representation
calculateSRS(input, t, fp) ==
    LET interval == newInterval(input, fp.prodUp)
    IN  [interval   |-> interval,
         nextReview |-> AddDays(t, interval),
         easeFactor |-> toFixed2(newEaseFactor(input), fp.tieUp),
         status     |-> newStatus(input, interval)]

FloatChoices == [tieUp : BOOLEAN, prodUp : BOOLEAN]

getInitialSRSState(t) ==
    [nextReview |-> t,
     interval   |-> 0,
     easeFactor |-> DEFAULT_EASE_FACTOR,
     status     |-> "new"]

\* SRSInput: grade, previousEaseFactor, previousInterval
SRSInput(g, ef, iv) ==
    [grade |-> g, previousEaseFactor |-> ef, previousInterval |-> iv]

NoInput == SRSInput(-9, 0, 0)

(* The inputs the scheduler is called with *)
Grades == 0..5
AnyGrades == -1..7
EaseInputs == {1000 + EaseStride * k : k \in 0..MaxEaseSteps}
IntervalInputs ==
    (-1..MaxPrevInterval) \cup {IntervalStride * k : k \in 0..MaxPrevInterval}

PreviousState(iv, ef) == [interval |-> iv, easeFactor |-> ef]

\* A review of the item: calculateSRS is called with the grade and the item's
\* state, and its result becomes the item's state.  The function has no
\* throw statement: every call returns a result.
Review(g, fp) ==
    LET input == SRSInput(g, previous.easeFactor, previous.interval)
        out == calculateSRS(input, now, fp)
    IN  /\ \/ srsInput = NoInput
           \/ /\ previous.interval <= MaxChainInterval
              /\ previous.interval >= -MaxChainInterval
              /\ previous.easeFactor <= MaxChainEase
        /\ srsInput' = input
        /\ srsOutput' = out
        /\ srsError' = FALSE
        /\ previous' = PreviousState(out.interval, out.easeFactor)
        /\ UNCHANGED now

ReviewAny == \E g \in AnyGrades, fp \in FloatChoices : Review(g, fp)

\* a call as it is kept: its input, its result, the clock at the call and
\* the representation's choices
CallRec(input, output, at, fp) ==
    [input |-> input, output |-> output, at |-> at, fp |-> fp]

NoCallRec ==
    CallRec(NoInput, getInitialSRSState(Timestamp(0, 0)), Timestamp(0, 0),
            [tieUp |-> FALSE, prodUp |-> FALSE])

NoLog == [noted |-> NoCallRec, at |-> Timestamp(0, 0), count |-> 0]

\* A review that is counted, and kept if note is set and no call is kept
\* yet.  Arithmetic on doubles is a function of its operands: the
\* representation's choices for an input are the same in every call.
ReviewLogged(g, fp, note) ==
    LET input == SRSInput(g, previous.easeFactor, previous.interval)
    IN  /\ srsLog.count < MaxReviews
        /\ srsLog.noted.input = input => fp = srsLog.noted.fp
        /\ Review(g, fp)
        /\ srsLog' =
              [noted |-> IF note /\ srsLog.noted = NoCallRec
                         THEN CallRec(input, calculateSRS(input, now, fp),
                                      now, fp)
                         ELSE srsLog.noted,
               at |-> now,
               count |-> srsLog.count + 1]

\* calculateSRS is called again with the input of the call that is kept
ReviewRepeated ==
    LET input == srsLog.noted.input
        out == calculateSRS(input, now, srsLog.noted.fp)
    IN  /\ srsLog.noted # NoCallRec
        /\ srsLog.count < MaxReviews
        /\ srsInput' = input
        /\ srsOutput' = out
        /\ srsError' = FALSE
        /\ previous' = PreviousState(out.interval, out.easeFactor)
        /\ srsLog' = [srsLog EXCEPT !.at = now, !.count = @ + 1]
        /\ UNCHANGED now

SRSNext == ReviewAny

----------------------------------------------------------------------------
(* Review Item Store: saveToSRS.saveItem on table user_review_deck *)

Users == {1, 2}
ItemIds == {1, 2}
ItemTypes == {"sentence", "grammar", "character"}

\* an optional id field that is not set
NoId == 0

\* the id column of the item type
idField(itemType) ==
    CASE itemType = "sentence"  -> "sentenceId"
      [] itemType = "grammar"   -> "grammarId"
      [] itemType = "character" -> "characterId"

\* the computed states a client sends: results of the scheduler
SaveStates ==
    {calculateSRS(SRSInput(1, DEFAULT_EASE_FACTOR, 6), Timestamp(0, 0),
                  [tieUp |-> FALSE, prodUp |-> FALSE]),
     calculateSRS(SRSInput(5, DEFAULT_EASE_FACTOR, 1), Timestamp(0, 0),
                  [tieUp |-> FALSE, prodUp |-> FALSE])}

\* the items that are saved: one item of two users, an item of each other
\* type with the same id, and a second item of the same type
SaveKeys ==
    {[userId |-> 1, itemType |-> "sentence", itemId |-> 1],
     [userId |-> 2, itemType |-> "sentence", itemId |-> 1],
     [userId |-> 1, itemType |-> "grammar", itemId |-> 1],
     [userId |-> 1, itemType |-> "character", itemId |-> 1],
     [userId |-> 1, itemType |-> "sentence", itemId |-> 2]}

SaveArgs ==
    {[userId |-> k.userId, itemId |-> k.itemId, itemType |-> k.itemType,
      state |-> s] : k \in SaveKeys, s \in SaveStates}

\* a lookup that leaves out the by_user index
Matching_anyUser(d, args) ==
    {i \in 1..Len(d) : d[i][idField(args.itemType)] = args.itemId}

\* positions of the records of the user whose id column holds the item id
Matching(d, args) ==
    {i \in 1..Len(d) :
        /\ d[i].userId = args.userId
        /\ d[i][idField(args.itemType)] = args.itemId}

\* .first(): the earliest created matching record, 0 if there is none
existingCard(d, args) ==
    IF Matching(d, args) = {} THEN 0
    ELSE CHOOSE i \in Matching(d, args) : \A j \in Matching(d, args) : i <= j

\* a patch that adds the interval to the stored one
patchCard_accumulates(card, args, t) ==
    [card EXCEPT !.nextReview = args.state.nextReview,
                 !.interval = @ + args.state.interval,
                 !.easeFactor = args.state.easeFactor,
                 !.status = args.state.status,
                 !.lastReview = t]

\* ctx.db.patch(existingCard._id, {...})
patchCard(card, args, t) ==
    [card EXCEPT !.nextReview = args.state.nextReview,
                 !.interval = args.state.interval,
                 !.easeFactor = args.state.easeFactor,
                 !.status = args.state.status,
                 !.lastReview = t]

\* newCardData with newCardData[idField] = normalizedId, as inserted
newCardData(id, args, t) ==
    [[_id |-> id,
      userId |-> args.userId,
      type |-> args.itemType,
      sentenceId |-> NoId,
      grammarId |-> NoId,
      characterId |-> NoId,
      nextReview |-> args.state.nextReview,
      interval |-> args.state.interval,
      easeFactor |-> args.state.easeFactor,
      status |-> args.state.status,
      lastReview |-> t] EXCEPT ![idField(args.itemType)] = args.itemId]

\* a mutation that patches every record whose id column holds the item id
saveItemDeck_patchesAll(d, args, t) ==
    LET i == existingCard(d, args)
    IN  IF i # 0
        THEN [j \in 1..Len(d) |->
                IF j \in Matching_anyUser(d, args)
                THEN patchCard(d[j], args, t) ELSE d[j]]
        ELSE Append(d, newCardData(Len(d) + 1, args, t))

\* the table after the mutation
saveItemDeck(d, args, t) ==
    LET i == existingCard(d, args)
    IN  IF i # 0
        THEN [d EXCEPT ![i] = patchCard(d[i], args, t)]
        ELSE Append(d, newCardData(Len(d) + 1, args, t))

\* what the mutation returns
saveItemReturn(d, args) ==
    LET i == existingCard(d, args)
    IN  IF i # 0
        THEN [action |-> "updated", id |-> d[i]._id]
        ELSE [action |-> "created", id |-> Len(d) + 1]

Call(args, ret) == [args |-> args, ret |-> ret]

NoCall ==
    Call([userId |-> 0, itemId |-> NoId, itemType |-> "none",
          state |-> getInitialSRSState(Timestamp(0, 0))],
         [action |-> "none", id |-> 0])

\* The mutation saveItem; a Convex mutation runs as one transaction.
saveItem(args) ==
    /\ existingCard(deck, args) # 0 \/ Len(deck) < MaxDeck
    /\ deck' = saveItemDeck(deck, args, now)
    /\ lastCall' = Call(args, saveItemReturn(deck, args))
    /\ prevCall' = lastCall
    /\ UNCHANGED now

SaveAny == \E args \in SaveArgs : saveItem(args)

----------------------------------------------------------------------------
(* Offline Sync Queue: OfflineCache over AsyncStorage *)

\* AsyncStorage holds no value under the key
Null == [present |-> FALSE, valid |-> TRUE, list |-> <<>>]

\* JSON.stringify(list), the string stored under the key
JSONstringify(list) == [present |-> TRUE, valid |-> TRUE, list |-> list]

\* a stored string that is not JSON
Corrupt == [present |-> TRUE, valid |-> FALSE, list |-> <<>>]

\* how a call ends: it threw, or it returned the list
Outcome(threw, list) == [threw |-> threw, list |-> list]

\* JSON.parse(json): throws a SyntaxError for a string that is not JSON
JSONparse(json) == Outcome(~json.valid, json.list)

\* Storage.getItem: the stored value, or null when the read throws
StorageGetItem(value, readOk) == IF readOk THEN value ELSE Null

\* Storage.setItem: the write error is caught and logged
StorageSetItem(old, value, writeOk) == IF writeOk THEN value ELSE old

\* Storage.removeItem: the delete error is caught and logged
StorageRemoveItem(old, removeOk) == IF removeOk THEN Null ELSE old

\* a getPendingReviews without the try/catch around JSON.parse
getPendingReviewsOutcome_noCatch(value, readOk) ==
    LET json == StorageGetItem(value, readOk)
    IN  IF ~json.present THEN Outcome(FALSE, <<>>) ELSE JSONparse(json)

\* getPendingReviews: [] when nothing is stored or the string does not
\* parse, else the parsed list
getPendingReviewsOutcome(value, readOk) ==
    LET json == StorageGetItem(value, readOk)
    IN  IF ~json.present THEN Outcome(FALSE, <<>>)
        ELSE IF JSONparse(json).threw THEN Outcome(FALSE, <<>>)
        ELSE Outcome(FALSE, JSONparse(json).list)

\* the list that getPendingReviews returns
getPendingReviews(value, readOk) ==
    getPendingReviewsOutcome(value, readOk).list

\* the persisted pending list, as a successful read returns it
PendingList == getPendingReviews(pendingSync, TRUE)

Callers == 1..MaxCallers

\* the actions that are queued: item, type and grade
QueueInputs ==
    {[itemId |-> 1, itemType |-> "sentence", grade |-> 3],
     [itemId |-> 2, itemType |-> "sentence", grade |-> 1]}

\* a call keeps the list it read (pending), and what the storage held at
\* the read (stored), which a failed read does not return
IdleCall ==
    [pc |-> "idle", pending |-> <<>>, stored |-> <<>>, action |-> <<>>]

\* newAction: the action with its id and timestamp
PendingReviewAction(action, id, t) ==
    [id |-> id, itemId |-> action.itemId, itemType |-> action.itemType,
     grade |-> action.grade, timestamp |-> t]

Ids(list) == {list[i].id : i \in 1..Len(list)}

\* queuePendingReview up to its first await: the stored list is read
QueueRead(c, action, readOk) ==
    /\ queueCalls[c].pc = "idle"
    /\ nextUUID + Cardinality({d \in Callers : queueCalls[d].pc = "write"})
          <= MaxActions
    /\ queueCalls' =
          [queueCalls EXCEPT ![c] =
              [pc |-> "write",
               pending |-> getPendingReviews(pendingSync, readOk),
               stored |-> PendingList,
               action |-> action]]
    /\ UNCHANGED <<now, pendingSync, nextUUID, persisted, returned,
                   reachable, flush, applied>>

\* a write of the new action alone
QueueWrite_newOnly(c, writeOk) ==
    LET newAction ==
            PendingReviewAction(queueCalls[c].action, nextUUID, now)
        pending == <<newAction>>
    IN  /\ queueCalls[c].pc = "write"
        /\ pendingSync' =
              StorageSetItem(pendingSync, JSONstringify(pending), writeOk)
        /\ nextUUID' = nextUUID + 1
        /\ persisted' =
              IF writeOk THEN persisted \cup {newAction.id} ELSE persisted
        /\ returned' = Append(returned, newAction.id)
        /\ queueCalls' = [queueCalls EXCEPT ![c] = IdleCall]
        /\ UNCHANGED <<now, reachable, flush, applied>>

\* queuePendingReview after the read: the new action is pushed, the list is
\* written back, and the call returns whether or not the write succeeded
QueueWrite(c, writeOk) ==
    LET newAction ==
            PendingReviewAction(queueCalls[c].action, nextUUID, now)
        pending == Append(queueCalls[c].pending, newAction)
    IN  /\ queueCalls[c].pc = "write"
        /\ pendingSync' =
              StorageSetItem(pendingSync, JSONstringify(pending), writeOk)
        /\ nextUUID' = nextUUID + 1
        /\ persisted' =
              IF writeOk THEN persisted \cup {newAction.id} ELSE persisted
        /\ returned' = Append(returned, newAction.id)
        /\ queueCalls' = [queueCalls EXCEPT ![c] = IdleCall]
        /\ UNCHANGED <<now, reachable, flush, applied>>

\* clearPendingReviews
clearPendingReviews(removeOk) ==
    pendingSync' = StorageRemoveItem(pendingSync, removeOk)

\* the network comes and goes
Connectivity ==
    /\ reachable' = ~reachable
    /\ UNCHANGED <<now, pendingSync, queueCalls, nextUUID, persisted,
                   returned, flush, applied>>

NoFlush == [pc |-> "idle", list |-> <<>>, sent |-> 0, runs |-> 0]

IdleFlush == [NoFlush EXCEPT !.runs = flush.runs]

\* flush: the pending list is read
FlushStart(readOk) ==
    /\ flush.pc = "idle"
    /\ flush.runs < MaxFlushes
    /\ flush' = [pc |-> "send",
                 list |-> getPendingReviews(pendingSync, readOk),
                 sent |-> 0,
                 runs |-> flush.runs + 1]
    /\ UNCHANGED <<now, pendingSync, queueCalls, nextUUID, persisted,
                   returned, reachable, applied>>

\* flush: the next action of the list is replayed and the store confirms it
FlushSend ==
    /\ flush.pc = "send"
    /\ flush.sent < Len(flush.list)
    /\ reachable
    /\ applied' = Append(applied, flush.list[flush.sent + 1].id)
    /\ flush' = [flush EXCEPT !.sent = @ + 1]
    /\ UNCHANGED <<now, pendingSync, queueCalls, nextUUID, persisted,
                   returned, reachable>>

\* flush: the store cannot be reached; the run stops and the queue stays
FlushStop ==
    /\ flush.pc = "send"
    /\ flush.sent < Len(flush.list)
    /\ ~reachable
    /\ flush' = IdleFlush
    /\ UNCHANGED <<now, pendingSync, queueCalls, nextUUID, persisted,
                   returned, reachable, applied>>

\* flush: every action of the list was confirmed; the queue is cleared
FlushClear(removeOk) ==
    /\ flush.pc = "send"
    /\ flush.sent = Len(flush.list)
    /\ IF flush.list # <<>>
       THEN clearPendingReviews(removeOk)
       ELSE UNCHANGED pendingSync
    /\ flush' = [flush EXCEPT !.pc = "done"]
    /\ UNCHANGED <<now, queueCalls, nextUUID, persisted, returned,
                   reachable, applied>>

\* flush has reported; the next one may start
FlushReturn ==
    /\ flush.pc = "done"
    /\ flush' = IdleFlush
    /\ UNCHANGED <<now, pendingSync, queueCalls, nextUUID, persisted,
                   returned, reachable, applied>>

QueueReadAny ==
    \E c \in Callers, action \in QueueInputs, readOk \in BOOLEAN :
        QueueRead(c, action, readOk)

QueueWriteAny == \E c \in Callers, writeOk \in BOOLEAN : QueueWrite(c, writeOk)

FlushStartAny == \E readOk \in BOOLEAN : FlushStart(readOk)

FlushClearAny == \E removeOk \in BOOLEAN : FlushClear(removeOk)

----------------------------------------------------------------------------
(* Local Cache: OfflineCache sentences and review deck *)

\* the lists that are saved: ids of cached items, the empty list included
RECURSIVE ListsUpTo(_)
ListsUpTo(n) ==
    IF n = 0 THEN {<<>>}
    ELSE ListsUpTo(n - 1) \cup
         {Append(l, x) : l \in {m \in ListsUpTo(n - 1) : Len(m) = n - 1},
                         x \in ItemIds}

CacheLists == ListsUpTo(MaxCacheLen)

NoCache == [sentences |-> Null, reviewDeck |-> Null]

\* a completed call: its name, whether the storage worked, and the list
\* that was saved or that the load returned
CacheCall(op, ok, list) ==
    [op |-> op, ok |-> ok, threw |-> FALSE, list |-> list]

\* a completed call that threw
ThrownCall(op, ok) == [op |-> op, ok |-> ok, threw |-> TRUE, list |-> <<>>]

\* a load call that ended with outcome o
LoadCall(op, ok, o) ==
    IF o.threw THEN ThrownCall(op, ok) ELSE CacheCall(op, ok, o.list)

NoCacheCall == CacheCall("none", TRUE, <<>>)

\* saveSentences: nothing is written for an empty list
saveSentences(list, writeOk) ==
    /\ IF Len(list) = 0
       THEN UNCHANGED cache
       ELSE cache' =
              [cache EXCEPT !.sentences =
                  StorageSetItem(@, JSONstringify(list), writeOk)]
    /\ lastCache' = CacheCall("saveSentences", writeOk, list)
    /\ UNCHANGED pendingSync

\* loadSentences: [] when nothing is stored or the string does not parse
loadSentencesOutcome(value, readOk) ==
    LET json == StorageGetItem(value, readOk)
    IN  IF ~json.present THEN Outcome(FALSE, <<>>)
        ELSE IF JSONparse(json).threw THEN Outcome(FALSE, <<>>)
        ELSE Outcome(FALSE, JSONparse(json).list)

\* the list that loadSentences returns
loadSentences(value, readOk) == loadSentencesOutcome(value, readOk).list

\* saveReviewDeck
saveReviewDeck(list, writeOk) ==
    /\ cache' =
          [cache EXCEPT !.reviewDeck =
              StorageSetItem(@, JSONstringify(list), writeOk)]
    /\ lastCache' = CacheCall("saveReviewDeck", writeOk, list)
    /\ UNCHANGED pendingSync

\* loadReviewDeck: [] when nothing is stored or the string does not parse
loadReviewDeckOutcome(value, readOk) ==
    LET json == StorageGetItem(value, readOk)
    IN  IF ~json.present THEN Outcome(FALSE, <<>>)
        ELSE IF JSONparse(json).threw THEN Outcome(FALSE, <<>>)
        ELSE Outcome(FALSE, JSONparse(json).list)

\* the list that loadReviewDeck returns
loadReviewDeck(value, readOk) == loadReviewDeckOutcome(value, readOk).list

\* a loadSentences call
CacheLoadSentences(readOk) ==
    /\ lastCache' =
          LoadCall("loadSentences", readOk,
                   loadSentencesOutcome(cache.sentences, readOk))
    /\ UNCHANGED <<cache, pendingSync>>

\* a loadReviewDeck call
CacheLoadReviewDeck(readOk) ==
    /\ lastCache' =
          LoadCall("loadReviewDeck", readOk,
                   loadReviewDeckOutcome(cache.reviewDeck, readOk))
    /\ UNCHANGED <<cache, pendingSync>>

\* a getPendingReviews call
CacheGetPendingReviews(readOk) ==
    /\ lastCache' =
          LoadCall("getPendingReviews", readOk,
                   getPendingReviewsOutcome(pendingSync, readOk))
    /\ UNCHANGED <<cache, pendingSync>>

CacheKeys == {"sentences", "reviewDeck"}

\* the string stored under a key is damaged outside the cache's calls (a
\* write that was cut short, another writer); no call has completed since
StorageDamaged(key) ==
    /\ IF key \in CacheKeys
       THEN /\ cache' = [cache EXCEPT ![key] = Corrupt]
            /\ UNCHANGED pendingSync
       ELSE /\ pendingSync' = Corrupt
            /\ UNCHANGED cache
    /\ lastCache' = NoCacheCall

----------------------------------------------------------------------------
(* Session Builder: SRSReviewScreen *)

USER_ID == 1

\* the query result when the user has n sentences: their ids, in the
\* order of the query
SentenceList(n) == [i \in 1..n |-> i]

\* reviewDeck: due and status come from the position (from 0) in the list
reviewDeck(list) ==
    [i \in 1..Len(list) |->
        [_id |-> list[i],
         type |-> "sentence",
         due |-> (i - 1) % 2 = 0,
         status |-> IF (i - 1) % 3 = 0 THEN "new"
                    ELSE IF (i - 1) % 3 = 1 THEN "learning" ELSE "review"]]

\* deck.filter(i => i.due)
RECURSIVE FilterDue(_)
FilterDue(seq) ==
    IF seq = <<>> THEN <<>>
    ELSE IF Head(seq).due THEN <<Head(seq)>> \o FilterDue(Tail(seq))
    ELSE FilterDue(Tail(seq))

\* reviewDeck?.filter(i => i.due) || []
dueItems ==
    IF sentences.loaded THEN FilterDue(reviewDeck(sentences.list))
    ELSE <<>>

NoResults == [correct |-> 0, incorrect |-> 0, xpGained |-> 0]

\* the grades of the four GradeButtons
ButtonGrades == {1, 2, 3, 5}

\* the buttons that are pressed: Hard, which fails, and Good, which passes
PressedGrades == {2, 3}

\* a refresh that also rebuilds the queue of the running session
SentencesChange_requeues(n) ==
    /\ sentences' = [loaded |-> TRUE, list |-> SentenceList(n)]
    /\ sentences' # sentences
    /\ sessionQueue' =
          IF viewState = "session"
          THEN FilterDue(reviewDeck(SentenceList(n)))
          ELSE sessionQueue
    /\ UNCHANGED <<viewState, currentIndex, isFlipped, sessionResults,
                   grading, audio>>

\* the query delivers a result: first load or a refresh
SentencesChange(n) ==
    /\ sentences' = [loaded |-> TRUE, list |-> SentenceList(n)]
    /\ sentences' # sentences
    /\ UNCHANGED <<viewState, sessionQueue, currentIndex, isFlipped,
                   sessionResults, grading, audio>>

\* the screen renders a view: the deck is loaded, and the session view has
\* a card at currentIndex
Rendered ==
    /\ sentences.loaded
    /\ viewState = "session" => currentIndex < Len(sessionQueue)

\* a startSession without `if (dueItems.length === 0) return`
startSession_unguarded ==
    /\ Rendered
    /\ viewState = "dashboard"
    /\ sessionQueue' = dueItems
    /\ currentIndex' = 0
    /\ isFlipped' = FALSE
    /\ sessionResults' = NoResults
    /\ viewState' = "session"
    /\ UNCHANGED <<sentences, grading, audio>>

\* startSession, the handler of the dashboard's start button
startSession ==
    /\ Rendered
    /\ viewState = "dashboard"
    /\ IF Len(dueItems) = 0
       THEN UNCHANGED <<sessionQueue, currentIndex, isFlipped,
                        sessionResults, viewState>>
       ELSE /\ sessionQueue' = dueItems
            /\ currentIndex' = 0
            /\ isFlipped' = FALSE
            /\ sessionResults' = NoResults
            /\ viewState' = "session"
    /\ UNCHANGED <<sentences, grading, audio>>

handleFlip ==
    /\ Rendered
    /\ viewState = "session"
    /\ ~isFlipped
    /\ isFlipped' = TRUE
    /\ UNCHANGED <<sentences, viewState, sessionQueue, currentIndex,
                   sessionResults, grading, audio>>

\* the arguments handleGrade passes to saveToSRS
GradeArgs(item, grade, t) ==
    [userId |-> USER_ID,
     itemId |-> item._id,
     itemType |-> item.type,
     state |-> [nextReview |-> AddDays(t, grade),
                interval |-> grade,
                easeFactor |-> 2500,
                status |-> IF grade < 3 THEN "learning" ELSE "review"]]

\* handleGrade up to `await saveToSRS(...)`: the call keeps the currentIndex
\* and sessionQueue of the render whose button was clicked
handleGrade(grade) ==
    /\ Rendered
    /\ viewState = "session"
    /\ isFlipped
    /\ Len(grading) < MaxGrading
    /\ grading' =
          Append(grading,
                 [grade |-> grade,
                  currentIndex |-> currentIndex,
                  length |-> Len(sessionQueue),
                  args |-> GradeArgs(sessionQueue[currentIndex + 1],
                                     grade, now)])
    /\ UNCHANGED <<sentences, viewState, sessionQueue, currentIndex,
                   isFlipped, sessionResults, audio>>

RemoveAt(seq, k) == SubSeq(seq, 1, k - 1) \o SubSeq(seq, k + 1, Len(seq))

\* setSessionResults(prev => ...)
updateStats(prev, grade) ==
    [correct |-> IF grade >= 3 THEN prev.correct + 1 ELSE prev.correct,
     incorrect |-> IF grade < 3 THEN prev.incorrect + 1 ELSE prev.incorrect,
     xpGained |-> prev.xpGained + grade * 10]

\* handleGrade after saveToSRS has resolved: the store has the record (the
\* value the mutation returned is dropped), the statistics are updated and
\* the session advances or finishes
handleGradeSaved(k) ==
    LET call == grading[k]
    IN  /\ deck' = saveItemDeck(deck, call.args, now)
        /\ UNCHANGED <<lastCall, prevCall>>
        /\ sessionResults' = updateStats(sessionResults, call.grade)
        /\ IF call.currentIndex < call.length - 1
           THEN /\ isFlipped' = FALSE
                /\ currentIndex' = currentIndex + 1
                /\ UNCHANGED viewState
           ELSE /\ viewState' = "summary"
                /\ UNCHANGED <<isFlipped, currentIndex>>
        /\ grading' = RemoveAt(grading, k)
        /\ UNCHANGED <<now, sentences, sessionQueue, audio>>

\* saveToSRS rejects: the await throws and handleGrade ends there
handleGradeFailed(k) ==
    /\ grading' = RemoveAt(grading, k)
    /\ UNCHANGED <<now, deck, lastCall, prevCall, sentences, viewState,
                   sessionQueue, currentIndex, isFlipped, sessionResults,
                   audio>>

\* onClick={() => setViewState('dashboard')} of the session and summary views
backToDashboard ==
    /\ Rendered
    /\ viewState \in {"session", "summary"}
    /\ viewState' = "dashboard"
    /\ UNCHANGED <<sentences, sessionQueue, currentIndex, isFlipped,
                   sessionResults, grading, audio>>

\* sentenceData.audioUrl is set: the first sentence has a recording
hasAudioUrl(item) == item._id = 1

NoAudio == [isPlaying |-> FALSE, audioLoading |-> FALSE]

\* handleAudio up to `await generateAudio(...)` or, with a url, to its end;
\* the button is on the answer side and is pressed again only after the
\* previous call has finished
handleAudio ==
    /\ Rendered
    /\ viewState = "session"
    /\ isFlipped
    /\ ~audio.audioLoading
    /\ LET currentItem == sessionQueue[currentIndex + 1]
       IN  IF audio.isPlaying \/ currentItem.type # "sentence"
           THEN UNCHANGED audio
           ELSE IF hasAudioUrl(currentItem)
           THEN audio' = [audio EXCEPT !.isPlaying = TRUE]
           ELSE audio' = [audio EXCEPT !.audioLoading = TRUE]
    /\ UNCHANGED <<sentences, viewState, sessionQueue, currentIndex,
                   isFlipped, sessionResults, grading>>

\* handleAudio after generateAudio has settled: the audio plays when the
\* action returned a url, and nothing plays when it failed
generateAudioSettled(url) ==
    /\ audio.audioLoading
    /\ audio' = [isPlaying |-> IF url THEN TRUE ELSE audio.isPlaying,
                 audioLoading |-> FALSE]
    /\ UNCHANGED <<sentences, viewState, sessionQueue, currentIndex,
                   isFlipped, sessionResults, grading>>

\* audio.onended
audioEnded ==
    /\ audio.isPlaying
    /\ audio' = [audio EXCEPT !.isPlaying = FALSE]
    /\ UNCHANGED <<sentences, viewState, sessionQueue, currentIndex,
                   isFlipped, sessionResults, grading>>

----------------------------------------------------------------------------
(* Sentence analysis: GeminiService.analyzeSentence *)

MAX_RETRIES == 3

\* the sentences analysed
AnalysedSentences == 1 .. MaxAnalysed

\* the errors a model call rejects with; SyntaxError is what JSON.parse
\* throws
ApiErrors == 1 .. MaxApiErrors

SyntaxError == 0

\* what model.generateContent settles with: a rejection, or a response whose
\* text is JSON, JSON in a markdown code block, or not JSON
Rejected(e) == [rejected |-> TRUE, error |-> e, fenced |-> FALSE, text |-> Null]

Resolved(fenced, text) ==
    [rejected |-> FALSE, error |-> SyntaxError, fenced |-> fenced,
     text |-> text]

Responses(sentence) ==
    {Rejected(e) : e \in ApiErrors}
        \cup {Resolved(f, JSONstringify(<<sentence>>)) : f \in BOOLEAN}
        \cup {Resolved(FALSE, Corrupt)}

\* text.replace(/```json/g, "").replace(/```/g, "")
StripFences(response) == [response EXCEPT !.fenced = FALSE]

\* the body of the try block: the parsed text, or the error thrown
Attempt(response) ==
    IF response.rejected THEN [threw |-> TRUE, error |-> response.error,
                               value |-> <<>>]
    ELSE LET jsonStr == StripFences(response)
             parsed == IF jsonStr.fenced THEN Outcome(TRUE, <<>>)
                       ELSE JSONparse(jsonStr.text)
         IN  [threw |-> parsed.threw, error |-> SyntaxError,
              value |-> parsed.list]

NoAnalysis ==
    [pc |-> "idle", sentence |-> 0, attempt |-> 0, calls |-> 0,
     errors |-> <<>>, delay |-> 0, result |-> <<>>, error |-> SyntaxError]

RECURSIVE Pow2(_)
Pow2(n) == IF n = 0 THEN 1 ELSE 2 * Pow2(n - 1)

\* the head of the while loop: the next model call, or the end of the
\* function body, which returns undefined
LoopHead(g) ==
    IF g.attempt < MAX_RETRIES
    THEN [g EXCEPT !.pc = "call", !.calls = @ + 1]
    ELSE [g EXCEPT !.pc = "returned", !.result = <<>>]

\* analyzeSentence(sentence): attempt = 0 and the first model call
analyzeSentence(sentence) ==
    /\ gemini.pc \in {"idle", "returned", "thrown"}
    /\ gemini' = LoopHead([NoAnalysis EXCEPT !.sentence = sentence])

\* a catch block that never gives up
Caught_neverThrows(g, e) ==
    LET attempt == g.attempt + 1
    IN  [g EXCEPT !.attempt = attempt,
                  !.errors = Append(@, e),
                  !.pc = "backoff",
                  !.delay = 1000 * Pow2(attempt - 1)]

\* the catch block: attempt++, rethrow at MAX_RETRIES, else back off
Caught(g, e) ==
    LET attempt == g.attempt + 1
    IN  IF attempt >= MAX_RETRIES
        THEN [g EXCEPT !.attempt = attempt,
                       !.errors = Append(@, e),
                       !.pc = "thrown",
                       !.error = e]
        ELSE [g EXCEPT !.attempt = attempt,
                       !.errors = Append(@, e),
                       !.pc = "backoff",
                       !.delay = 1000 * Pow2(attempt - 1)]

\* the model call settles: the parsed text is returned, or the catch block
\* runs
generateContentSettled(response) ==
    /\ gemini.pc = "call"
    /\ LET a == Attempt(response)
       IN  gemini' =
             IF a.threw THEN Caught(gemini, a.error)
             ELSE [gemini EXCEPT !.pc = "returned", !.result = a.value]

\* the backoff timer fires and the loop goes round
backoffElapsed ==
    /\ gemini.pc = "backoff"
    /\ gemini' = LoopHead(gemini)

----------------------------------------------------------------------------
(* Properties of the scheduler, checked under SpecSRS *)

Called == srsInput # NoInput

\* C1: for every grade in 0..5 and every prior state the ease factor that
\* calculateSRS returns is at least 1.3, so the ease factor of an item whose
\* results are fed back as the next prior state never goes below 1.3.
C1_EaseFactorFloor ==
    (Called /\ srsInput.grade \in Grades) =>
        /\ srsOutput.easeFactor >= 1300
        /\ previous.easeFactor >= 1300

\* the floor acted: the update alone would have gone below 1.3
C1_Witness ==
    /\ Called
    /\ srsInput.grade \in Grades
    /\ srsInput.previousEaseFactor >= 1300
    /\ srsInput.previousEaseFactor + EaseDelta(srsInput.grade) < 1300
    /\ srsOutput.easeFactor = 1300

\* C2: a failing grade (grade < 3) gives interval 1 and status learning,
\* whatever the previous interval and ease factor.
C2_FailureResets ==
    (Called /\ srsInput.grade < 3) =>
        /\ srsOutput.interval = 1
        /\ srsOutput.status = "learning"

\* a failed review of an item whose interval was 100 days or more
C2_Witness ==
    /\ Called
    /\ srsInput.grade \in 0..2
    /\ srsInput.previousInterval >= 100
    /\ srsOutput.interval = 1
    /\ srsOutput.status = "learning"

\* C3: for a passing grade the new interval is 1 after interval 0, 6 after
\* interval 1, and otherwise ceil(previousInterval x easeFactor') with the
\* ease factor that calculateSRS returns (rounded to 2 decimals).
C3_IntervalRule ==
    (Called /\ srsInput.grade \in 3..5 /\ srsInput.previousInterval >= 0) =>
        /\ srsInput.previousInterval = 0 => srsOutput.interval = 1
        /\ srsInput.previousInterval = 1 => srsOutput.interval = 6
        /\ srsInput.previousInterval > 1 =>
              srsOutput.interval =
                  Ceil(srsInput.previousInterval * srsOutput.easeFactor, 1000)

\* C4: the status is mastered exactly when the grade passes and the new
\* interval exceeds 180; otherwise it is learning (grade < 3) or review,
\* and it is never new.
C4_MasteredIff ==
    Called =>
        /\ srsOutput.status = "mastered" <=>
              (srsInput.grade >= 3 /\ srsOutput.interval > 180)
        /\ srsOutput.status # "mastered" =>
              srsOutput.status =
                  (IF srsInput.grade < 3 THEN "learning" ELSE "review")
        /\ srsOutput.status # "new"

\* an item becomes mastered from an interval that was not yet over 180
C4_Witness ==
    /\ Called
    /\ srsInput.grade >= 3
    /\ srsInput.previousInterval <= 180
    /\ srsOutput.interval > 180
    /\ srsOutput.status = "mastered"

InvalidInput(input) ==
    input.grade \notin 0..5 \/ input.previousInterval < 0

\* C10: a call with a grade outside 0..5 or a negative previousInterval
\* produces an error and no scheduling result.
C10_InvalidInputRejected ==
    (Called /\ InvalidInput(srsInput)) => srsError

----------------------------------------------------------------------------
(* Properties of the review item store, checked under SpecStore *)

\* the item id of a record: the id column that its type names
ItemIdOf(card) ==
    IF card.type = "sentence" THEN card.sentenceId
    ELSE IF card.type = "grammar" THEN card.grammarId
    ELSE card.characterId

\* the records of the table d for the key (userId, itemType, itemId)
RecordsOf(d, userId, itemType, itemId) ==
    {i \in 1..Len(d) :
        /\ d[i].userId = userId
        /\ d[i].type = itemType
        /\ ItemIdOf(d[i]) = itemId}

RecordsOfArgs(d, args) == RecordsOf(d, args.userId, args.itemType, args.itemId)

\* the computed state that a record stores
StoredState(card) ==
    [interval |-> card.interval, easeFactor |-> card.easeFactor,
     status |-> card.status, nextReview |-> card.nextReview]

\* C5: after any sequence of saveItem calls the table holds at most one
\* record per (userId, itemType, itemId); a call for a key without a record
\* inserts exactly one record and a call for a key with a record inserts none.
C5_OneRecordPerKey ==
    /\ [](\A u \in Users, ty \in ItemTypes, it \in ItemIds :
            Cardinality(RecordsOf(deck, u, ty, it)) <= 1)
    /\ [][\A args \in SaveArgs : saveItem(args) =>
            Len(deck') = Len(deck) +
                (IF RecordsOfArgs(deck, args) = {} THEN 1 ELSE 0)]_vars

\* two keys have a record each, and the latest call found its record
C5_Witness ==
    /\ Len(deck) = 2
    /\ lastCall.ret.action = "updated"
    /\ prevCall.ret.action = "created"
    /\ prevCall.args.itemId = lastCall.args.itemId
    /\ prevCall.args.userId # lastCall.args.userId

\* C6: two saveItem calls with the same key and the same computed state
\* leave one record for the key; the first returns created, the second
\* updated with the same id, and the stored interval, easeFactor, status and
\* nextReview are the same after the second call as after the first.
C6_UpsertIdempotent ==
    /\ []((prevCall.args = lastCall.args /\ prevCall.ret.action = "created") =>
            /\ lastCall.ret.action = "updated"
            /\ lastCall.ret.id = prevCall.ret.id
            /\ Cardinality(RecordsOfArgs(deck, lastCall.args)) = 1)
    /\ [][(lastCall.ret.action = "created" /\ saveItem(lastCall.args)) =>
            \A i \in RecordsOfArgs(deck, lastCall.args) :
                /\ deck'[i]._id = lastCall.ret.id
                /\ StoredState(deck'[i]) = StoredState(deck[i])]_vars

\* the second call of such a pair, made after the clock has advanced
C6_Witness ==
    /\ prevCall.args = lastCall.args
    /\ prevCall.ret.action = "created"
    /\ lastCall.ret.action = "updated"
    /\ deck[lastCall.ret.id].lastReview = Timestamp(0, 1)
    /\ StoredState(deck[lastCall.ret.id]) = lastCall.args.state

----------------------------------------------------------------------------
(* Properties of the offline sync queue, checked under SpecQueue *)

Range(seq) == {seq[i] : i \in 1..Len(seq)}

\* no queuePendingReview call is between its read and its write
NoCallInFlight == \A c \in Callers : queueCalls[c].pc = "idle"

\* C7: after N actions are enqueued while the store is unreachable the
\* pending list has length N; after the store is reachable and the queue is
\* flushed the pending list is empty and the store has all N actions,
\* applied in their original order.
C7_OfflineRoundTrip ==
    /\ (NoCallInFlight /\ flush.runs = 0) =>
          Len(PendingList) = Len(returned)
    /\ (NoCallInFlight /\ flush.runs = 1 /\ flush.pc = "done"
           /\ Ids(flush.list) = Range(returned)) =>
          /\ PendingList = <<>>
          /\ applied = returned

\* C8: every action that was enqueued is still in the pending queue or has
\* been written to the store; an action leaves the queue only after the
\* store has confirmed the write of that action.
C8_RemovedOnlyAfterConfirm ==
    \A id \in persisted : id \in Ids(PendingList) \/ id \in Range(applied)

----------------------------------------------------------------------------
(* Properties of the review session, checked under SpecSession *)

\* the pending list holds an action for the item and grade of the call
Queued(list, call) ==
    \E j \in 1..Len(list) :
        /\ list[j].itemId = call.args.itemId
        /\ list[j].itemType = call.args.itemType
        /\ list[j].grade = call.grade

\* C9: when saveToSRS fails during a grade the session still advances to the
\* next card, or to the summary on the last card, and the grade is in the
\* offline pending queue by then: the grade is not dropped and the session
\* is not stuck on the card.
C9_FailedGradeAdvancesAndQueues ==
    [][\A k \in 1..Len(grading) : handleGradeFailed(k) =>
          /\ IF grading[k].currentIndex < grading[k].length - 1
             THEN currentIndex' = grading[k].currentIndex + 1
             ELSE viewState' = "summary"
          /\ Queued(getPendingReviews(pendingSync', TRUE), grading[k])]_vars

\* C11: startSession with an empty due set is refused: the view stays the
\* dashboard and the queue, the index and the statistics are unchanged; with
\* a non-empty due set the view becomes the session, the index is 0, the card
\* is unflipped, the statistics are zero and the queue is as long as the due
\* set.
C11_StartSession ==
    [][startSession =>
          IF Len(dueItems) = 0
          THEN /\ viewState' = "dashboard"
               /\ UNCHANGED <<sessionQueue, currentIndex, sessionResults>>
          ELSE /\ viewState' = "session"
               /\ currentIndex' = 0
               /\ ~isFlipped'
               /\ sessionResults' = NoResults
               /\ Len(sessionQueue') = Len(dueItems)]_vars

\* a second session has started, over two due items, after a session that
\* had left an index, a flipped card and statistics behind
C11_Witness ==
    /\ viewState = "session"
    /\ Len(sessionQueue) = 2
    /\ Len(dueItems) = 2
    /\ currentIndex = 0
    /\ ~isFlipped
    /\ sessionResults = NoResults
    /\ deck # <<>>

\* C12: the session queue is frozen at session start: while the session
\* view is shown no flip, grade, audio action or refresh of the sentences
\* query adds, removes or reorders items of the session queue.
C12_QueueFrozen ==
    [][viewState = "session" => sessionQueue' = sessionQueue]_vars

\* in a session a card has been graded, the audio plays, and the query has
\* since delivered a list with a different due set
C12_Witness ==
    /\ viewState = "session"
    /\ currentIndex = 1
    /\ audio.isPlaying
    /\ sessionResults # NoResults
    /\ Len(sessionQueue) = 2
    /\ Len(dueItems) = 1

\* C13: after a grade is applied in the session view the session moves to
\* the summary if and only if the grade was for the last card of the queue,
\* so that the index never stays at the queue's length; a grade for an
\* earlier card keeps the session view, advances the index by exactly one
\* and shows the card unflipped.
C13_SummaryIffLastCard ==
    [][\A k \in 1..Len(grading) :
          (viewState = "session" /\ handleGradeSaved(k)) =>
             /\ IF grading[k].currentIndex = Len(sessionQueue) - 1
                THEN viewState' = "summary"
                ELSE /\ viewState' = "session"
                     /\ currentIndex' = currentIndex + 1
                     /\ ~isFlipped'
             /\ viewState' = "session" =>
                   currentIndex' < Len(sessionQueue')]_vars

\* C14: each grade updates the statistics exactly once: correct grows by 1
\* iff grade >= 3, incorrect by 1 iff grade < 3, xp by grade x 10; so in a
\* session correct + incorrect is the number of cards graded so far: the
\* index while cards are shown, the queue's length in the summary.
C14_StatsOncePerGrade ==
    /\ [](viewState = "session" =>
            sessionResults.correct + sessionResults.incorrect = currentIndex)
    /\ [](viewState = "summary" =>
            sessionResults.correct + sessionResults.incorrect
               = Len(sessionQueue))
    /\ [][\A k \in 1..Len(grading) : handleGradeSaved(k) =>
            LET g == grading[k].grade
            IN  /\ sessionResults'.correct =
                      sessionResults.correct + (IF g >= 3 THEN 1 ELSE 0)
                /\ sessionResults'.incorrect =
                      sessionResults.incorrect + (IF g < 3 THEN 1 ELSE 0)
                /\ sessionResults'.xpGained =
                      sessionResults.xpGained + g * 10]_vars

\* C15: the state that a grade writes to the store for the item (interval,
\* easeFactor, status, nextReview) is calculateSRS of the grade and of the
\* item's previous interval and ease factor: those of its record, or the
\* initial state when it has none.
C15_StoredIsSchedulerResult ==
    [][\A k \in 1..Len(grading) : handleGradeSaved(k) =>
          LET args == grading[k].args
              i == existingCard(deck, args)
              prior == IF i = 0 THEN getInitialSRSState(now) ELSE deck[i]
              j == existingCard(deck', args)
          IN  \E fp \in FloatChoices :
                 StoredState(deck'[j]) =
                    calculateSRS(SRSInput(grading[k].grade, prior.easeFactor,
                                          prior.interval), now, fp)]_vars

\* C16: at most one grading operation is in flight: while a handleGrade call
\* awaits the store write no second handleGrade call has started.
C16_OneGradeInFlight == Len(grading) <= 1

\* C17: leaving the session for the dashboard shows the dashboard and leaves
\* the store's records and the pending actions as they are, and a grade that
\* was submitted before leaving is in the store or in the pending queue once
\* its store write has settled.
C17_CancelKeepsGrades ==
    [][/\ (viewState = "session" /\ backToDashboard) =>
            /\ viewState' = "dashboard"
            /\ deck' = deck
            /\ pendingSync' = pendingSync
       /\ \A k \in 1..Len(grading) :
            (viewState = "dashboard" /\ handleGradeFailed(k)) =>
               Queued(getPendingReviews(pendingSync', TRUE), grading[k])]_vars

\* C29: whenever the screen is in the session view the index is that of a
\* card of the queue, 0 <= currentIndex < sessionQueue.length, whatever the
\* order of grade clicks and completions of store writes.
C29_IndexInQueue ==
    viewState = "session" =>
        (0 <= currentIndex /\ currentIndex < Len(sessionQueue))

\* C30: from the dashboard only startSession changes the view, the index or
\* the statistics: the completion of the store write of a grade submitted
\* before leaving the session changes none of them.
C30_DashboardStays ==
    [][viewState = "dashboard" =>
          \/ startSession
          \/ /\ viewState' = "dashboard"
             /\ currentIndex' = currentIndex
             /\ sessionResults' = sessionResults]_vars

----------------------------------------------------------------------------
(* Further properties of the offline sync queue, checked under SpecQueue *)

\* C18: whenever a queuePendingReview call returns normally its action is in
\* the persisted pending list: a failed storage write is not swallowed.
C18_EnqueuePersistsOrFails ==
    [][\A c \in Callers, writeOk \in BOOLEAN : QueueWrite(c, writeOk) =>
          nextUUID \in Ids(getPendingReviews(pendingSync', TRUE))]_vars

\* C19: with working storage a queuePendingReview call that nothing
\* interleaves with (it wrote to the list that it had read) makes the pending
\* list one longer: the earlier actions unchanged and in their order, the new
\* action last; and reading the pending list does not change it.
C19_SequentialAppend ==
    [][/\ \A c \in Callers :
            (QueueWrite(c, TRUE) /\ queueCalls[c].pending = PendingList) =>
               getPendingReviews(pendingSync', TRUE) =
                  Append(PendingList,
                         PendingReviewAction(queueCalls[c].action, nextUUID,
                                             now))
       /\ QueueReadAny => pendingSync' = pendingSync]_vars

\* two calls, one after the other, have queued their actions
C19_Witness ==
    /\ NoCallInFlight
    /\ returned = <<1, 2>>
    /\ Len(PendingList) = 2
    /\ PendingList[1].id = 1
    /\ PendingList[2].id = 2
    /\ PendingList[1].itemId # PendingList[2].itemId

\* the ids in the persisted pending list after the step
PendingIdsAfter == Ids(getPendingReviews(pendingSync', TRUE))

\* C27: when queuePendingReview calls interleave and the storage works,
\* nothing is lost: the write of a call whose read returned what was stored
\* leaves every action of the persisted list in it, with its own.
C27_ConcurrentEnqueuesKeepAll ==
    [][\A c \in Callers :
          (QueueWrite(c, TRUE)
              /\ queueCalls[c].pending = queueCalls[c].stored) =>
              Ids(PendingList) \cup {nextUUID} \subseteq PendingIdsAfter]_vars

\* C28: when the read of queuePendingReview fails and its write succeeds,
\* with no other write in between, the actions that were queued are still
\* in the persisted list, followed by the new one.
C28_FailedReadKeepsQueue ==
    [][\A c \in Callers :
          (QueueWrite(c, TRUE)
              /\ queueCalls[c].pending # queueCalls[c].stored
              /\ queueCalls[c].stored = PendingList) =>
              getPendingReviews(pendingSync', TRUE) =
                  Append(PendingList,
                         PendingReviewAction(queueCalls[c].action, nextUUID,
                                             now))]_vars

----------------------------------------------------------------------------
(* Properties of the local cache, checked under SpecCache *)

\* C20: for the cached sentences and the cached review deck, with working
\* storage, after save(x) has completed load() returns x for every list x,
\* the empty list included, and while nothing is stored load() returns the
\* empty list.
C20_CacheRoundTrip ==
    /\ (lastCache.op = "saveSentences" /\ lastCache.ok) =>
          loadSentences(cache.sentences, TRUE) = lastCache.list
    /\ (lastCache.op = "saveReviewDeck" /\ lastCache.ok) =>
          loadReviewDeck(cache.reviewDeck, TRUE) = lastCache.list
    /\ cache.sentences = Null => loadSentences(cache.sentences, TRUE) = <<>>
    /\ cache.reviewDeck = Null =>
          loadReviewDeck(cache.reviewDeck, TRUE) = <<>>

\* C21: when the string stored under a cache key does not parse or the
\* storage read fails, loadSentences, loadReviewDeck and getPendingReviews
\* each return the empty list and do not throw.
C21_CorruptReadsEmpty ==
    /\ lastCache.op \in {"loadSentences", "loadReviewDeck",
                          "getPendingReviews"} => ~lastCache.threw
    /\ (lastCache.op = "loadSentences"
           /\ (~lastCache.ok \/ ~cache.sentences.valid)) =>
          lastCache.list = <<>>
    /\ (lastCache.op = "loadReviewDeck"
           /\ (~lastCache.ok \/ ~cache.reviewDeck.valid)) =>
          lastCache.list = <<>>
    /\ (lastCache.op = "getPendingReviews"
           /\ (~lastCache.ok \/ ~pendingSync.valid)) =>
          lastCache.list = <<>>

\* getPendingReviews has read a string that does not parse, while the cached
\* review deck, whose last read failed, holds a list
C21_Witness ==
    /\ lastCache.op = "getPendingReviews"
    /\ lastCache.ok
    /\ ~pendingSync.valid
    /\ ~cache.sentences.valid
    /\ cache.reviewDeck.list # <<>>
    /\ lastCache.list = <<>>

----------------------------------------------------------------------------
(* Further properties of the review item store, checked under SpecStore *)

\* the columns that say which record it is
Identity(card) ==
    [_id |-> card._id, userId |-> card.userId, type |-> card.type,
     sentenceId |-> card.sentenceId, grammarId |-> card.grammarId,
     characterId |-> card.characterId]

\* C23: a saveItem call that finds a record for its key leaves that
\* record's id, userId, type and item-id column as they were, returns that
\* record's id, adds no record and changes no other record.
C23_UpdateFrame ==
    [][\A args \in SaveArgs :
          (saveItem(args) /\ RecordsOfArgs(deck, args) # {}) =>
              /\ Len(deck') = Len(deck)
              /\ lastCall'.ret.id \in
                    {deck[i]._id : i \in RecordsOfArgs(deck, args)}
              /\ \A i \in 1..Len(deck) :
                    IF i \in RecordsOfArgs(deck, args)
                    THEN Identity(deck'[i]) = Identity(deck[i])
                    ELSE deck'[i] = deck[i]]_vars

\* the first of two records was updated to a state and a time that the
\* second, a record of another user for the same sentence, does not have
C23_Witness ==
    /\ Len(deck) = 2
    /\ lastCall.ret.action = "updated"
    /\ lastCall.ret.id = 1
    /\ deck[1].sentenceId = deck[2].sentenceId
    /\ deck[1].userId # deck[2].userId
    /\ StoredState(deck[1]) = lastCall.args.state
    /\ StoredState(deck[2]) # lastCall.args.state
    /\ deck[1].lastReview # deck[2].lastReview

----------------------------------------------------------------------------
(* Further properties of the scheduler, checked under SpecSRS *)

\* the latest call passed, from an interval that is not negative
Passed == Called /\ srsInput.grade >= 3 /\ srsInput.previousInterval >= 0

\* C25: for a passing grade (>= 3), every prior ease factor and every
\* integer previousInterval >= 0 the interval that calculateSRS returns is
\* greater than previousInterval; along consecutive passing grades, each
\* fed the result before it, the interval strictly increases.
C25_IntervalGrows ==
    /\ [](Passed => srsOutput.interval > srsInput.previousInterval)
    /\ [][(Passed /\ srsInput'.grade >= 3) =>
            srsOutput'.interval > srsOutput.interval]_vars

\* the smallest growth: the second of two passing reviews takes interval 2
\* at the floor of the ease factor to interval 3
C25_Witness ==
    /\ Passed
    /\ srsInput.previousInterval = 2
    /\ srsInput.previousEaseFactor < 1300
    /\ srsOutput.easeFactor = 1300
    /\ srsOutput.interval = 3
    /\ previous.interval = 3

\* C26: a failing grade gives interval 1, so the passing grade that follows
\* it gives interval 6; a passing grade gives interval 1 only when the
\* previous interval is 0.
C26_LapseRecovery ==
    /\ []((Called /\ srsInput.grade >= 3 /\ srsOutput.interval = 1) =>
            srsInput.previousInterval = 0)
    /\ [][(Called /\ srsInput.grade < 3 /\ srsInput'.grade >= 3) =>
            (srsInput'.previousInterval = 1 /\ srsOutput'.interval = 6)]_vars

\* a passing review of an item that lapsed from an interval of a month or
\* more: the interval is 6
C26_Witness ==
    /\ Called
    /\ srsInput.grade \in 3..5
    /\ srsInput.previousInterval = 1
    /\ srsOutput.interval = 6
    /\ srsOutput.status = "review"
    /\ srsInput.previousEaseFactor < DEFAULT_EASE_FACTOR

----------------------------------------------------------------------------
(* Determinism of the scheduler, checked under SpecRepeat *)

----------------------------------------------------------------------------
(* Properties of the sentence analysis, checked under SpecGemini *)

\* the model calls an analyzeSentence call has made are within the limit,
\* and a call that ended made one call more than it had failures
AnalysisCounts ==
    /\ gemini.calls <= MAX_RETRIES
    /\ gemini.pc = "returned" =>
          /\ Len(gemini.errors) <= MAX_RETRIES - 1
          /\ gemini.calls = Len(gemini.errors) + 1
          /\ gemini.result = <<gemini.sentence>>
    /\ gemini.pc = "thrown" =>
          /\ gemini.calls = MAX_RETRIES
          /\ Len(gemini.errors) = MAX_RETRIES
          /\ gemini.error = gemini.errors[MAX_RETRIES]

\* C22: analyzeSentence ends after at most 3 model calls: it returns the
\* parsed result of the first attempt that succeeds, having made one call
\* per failure before it and that one; when all 3 attempts fail it has made
\* exactly 3 calls and throws the error of the last.  Every call that has
\* started ends, given that each model call settles.
C22_AnalyzeTerminates ==
    /\ []AnalysisCounts
    /\ (gemini.pc = "call") ~> (gemini.pc \in {"returned", "thrown"})

\* two attempts failed with different errors and the third returned
C22_Witness ==
    /\ gemini.pc = "returned"
    /\ gemini.calls = 3
    /\ Len(gemini.errors) = 2
    /\ gemini.errors[1] # gemini.errors[2]

----------------------------------------------------------------------------
(* Specifications *)

\* The state after construction: the table and the pending list are empty,
\* the screen shows the dashboard before the query has answered, and the
\* item is a new item or in any prior state of the input sets.
Init ==
    /\ now = Timestamp(0, 0)
    /\ previous \in
          {PreviousState(iv, ef) :
              iv \in IntervalInputs, ef \in EaseInputs \cup {DEFAULT_EASE_FACTOR}}
    /\ srsInput = NoInput
    /\ srsOutput = getInitialSRSState(now)
    /\ srsError = FALSE
    /\ deck = <<>>
    /\ lastCall = NoCall
    /\ prevCall = NoCall
    /\ pendingSync = Null
    /\ queueCalls = [c \in Callers |-> IdleCall]
    /\ nextUUID = 1
    /\ persisted = {}
    /\ returned = <<>>
    /\ reachable = FALSE
    /\ flush = NoFlush
    /\ applied = <<>>
    /\ sentences = [loaded |-> FALSE, list |-> <<>>]
    /\ viewState = "dashboard"
    /\ sessionQueue = <<>>
    /\ currentIndex = 0
    /\ isFlipped = FALSE
    /\ sessionResults = NoResults
    /\ grading = <<>>
    /\ audio = NoAudio
    /\ cache = NoCache
    /\ lastCache = NoCacheCall
    /\ gemini = NoAnalysis
    /\ srsLog = NoLog

\* the same with the item new, for the specifications that do not exercise
\* the scheduler
InitIdle ==
    /\ now = Timestamp(0, 0)
    /\ previous = PreviousState(0, DEFAULT_EASE_FACTOR)
    /\ srsInput = NoInput
    /\ srsOutput = getInitialSRSState(now)
    /\ srsError = FALSE
    /\ deck = <<>>
    /\ lastCall = NoCall
    /\ prevCall = NoCall
    /\ pendingSync = Null
    /\ queueCalls = [c \in Callers |-> IdleCall]
    /\ nextUUID = 1
    /\ persisted = {}
    /\ returned = <<>>
    /\ reachable = FALSE
    /\ flush = NoFlush
    /\ applied = <<>>
    /\ sentences = [loaded |-> FALSE, list |-> <<>>]
    /\ viewState = "dashboard"
    /\ sessionQueue = <<>>
    /\ currentIndex = 0
    /\ isFlipped = FALSE
    /\ sessionResults = NoResults
    /\ grading = <<>>
    /\ audio = NoAudio
    /\ cache = NoCache
    /\ lastCache = NoCacheCall
    /\ gemini = NoAnalysis
    /\ srsLog = NoLog

\* the scheduler alone
SpecSRS ==
    /\ Init
    /\ [][SRSNext
            /\ UNCHANGED <<storeVars, queueVars, sessionVars, cacheVars,
                 geminiVars, logVars>>]_vars

StoreNext ==
    \/ SaveAny /\ UNCHANGED <<srsVars, queueVars, sessionVars, cacheVars,
                 geminiVars, logVars>>
    \/ Tick
          /\ UNCHANGED <<srsVars, storeVars, queueVars, sessionVars, cacheVars,
                 geminiVars, logVars>>

\* the review item store alone
SpecStore ==
    /\ InitIdle
    /\ [][StoreNext]_vars

QueueFrame == UNCHANGED <<srsVars, storeVars, sessionVars, cacheVars,
                 geminiVars, logVars>>

QueueNext ==
    \/ QueueReadAny /\ QueueFrame
    \/ QueueWriteAny /\ QueueFrame
    \/ Connectivity /\ QueueFrame
    \/ FlushStartAny /\ QueueFrame
    \/ FlushSend /\ QueueFrame
    \/ FlushStop /\ QueueFrame
    \/ FlushClearAny /\ QueueFrame
    \/ FlushReturn /\ QueueFrame

\* the offline sync queue alone
SpecQueue ==
    /\ InitIdle
    /\ [][QueueNext]_vars

ScreenFrame == UNCHANGED <<now, srsVars, storeVars, queueVars, cacheVars,
                 geminiVars, logVars>>

SessionNext ==
    \/ (\E n \in 0..MaxSentences : SentencesChange(n)) /\ ScreenFrame
    \/ startSession /\ ScreenFrame
    \/ handleFlip /\ ScreenFrame
    \/ (\E g \in PressedGrades : handleGrade(g)) /\ ScreenFrame
    \/ (\E k \in 1..Len(grading) : handleGradeSaved(k))
          /\ UNCHANGED <<srsVars, queueVars, cacheVars,
                 geminiVars, logVars>>
    \/ (\E k \in 1..Len(grading) : handleGradeFailed(k))
          /\ UNCHANGED <<srsVars, queueVars, cacheVars,
                 geminiVars, logVars>>
    \/ backToDashboard /\ ScreenFrame
    \/ handleAudio /\ ScreenFrame
    \/ (\E url \in BOOLEAN : generateAudioSettled(url)) /\ ScreenFrame
    \/ audioEnded /\ ScreenFrame

\* the review screen with the store behind it
SpecSession ==
    /\ InitIdle
    /\ [][SessionNext]_vars

CacheFrame ==
    UNCHANGED <<now, srsVars, storeVars, sessionVars, queueCalls, nextUUID,
                persisted, returned, reachable, flush, applied, geminiVars,
                logVars>>

CacheNext ==
    \/ (\E list \in CacheLists, writeOk \in BOOLEAN :
            saveSentences(list, writeOk)) /\ CacheFrame
    \/ (\E list \in CacheLists, writeOk \in BOOLEAN :
            saveReviewDeck(list, writeOk)) /\ CacheFrame
    \/ (\E readOk \in BOOLEAN : CacheLoadSentences(readOk)) /\ CacheFrame
    \/ (\E readOk \in BOOLEAN : CacheLoadReviewDeck(readOk)) /\ CacheFrame
    \/ (\E readOk \in BOOLEAN : CacheGetPendingReviews(readOk)) /\ CacheFrame
    \/ (\E key \in CacheKeys \cup {"pendingSync"} : StorageDamaged(key))
          /\ CacheFrame

\* the local cache alone
SpecCache ==
    /\ InitIdle
    /\ [][CacheNext]_vars

GeminiFrame ==
    UNCHANGED <<now, srsVars, storeVars, queueVars, sessionVars, cacheVars,
                logVars>>

GeminiSettle ==
    (\E response \in Responses(gemini.sentence) :
        generateContentSettled(response)) /\ GeminiFrame

GeminiBackoff == backoffElapsed /\ GeminiFrame

GeminiNext ==
    \/ (\E sentence \in AnalysedSentences : analyzeSentence(sentence))
          /\ GeminiFrame
    \/ GeminiSettle
    \/ GeminiBackoff

\* the sentence analysis alone; every model call settles and every timer
\* fires
SpecGemini ==
    /\ InitIdle
    /\ [][GeminiNext]_vars
    /\ WF_vars(GeminiSettle)
    /\ WF_vars(GeminiBackoff)

RepeatFrame ==
    UNCHANGED <<storeVars, queueVars, sessionVars, cacheVars, geminiVars>>

RepeatNext ==
    \/ (\E g \in Grades, fp \in FloatChoices, note \in BOOLEAN :
            ReviewLogged(g, fp, note)) /\ RepeatFrame
    \/ ReviewRepeated /\ RepeatFrame
    \/ Tick /\ UNCHANGED <<srsVars, logVars>> /\ RepeatFrame

\* the scheduler called for one item from its initial state, with the clock
SpecRepeat ==
    /\ InitIdle
    /\ [][RepeatNext]_vars

Next == SRSNext /\ UNCHANGED <<storeVars, queueVars, sessionVars, cacheVars,
                 geminiVars, logVars>>

Spec == Init /\ [][Next]_vars
====
